---- MODULE Spec2Model ----
(***************************************************************************)
(* Model of the feishu-claudecode message bridge: the per-key session      *)
(* store (SessionManager), the stream folding (StreamProcessor), the       *)
(* render throttle (RateLimiter) and the task admission / drive loop of    *)
(* MessageBridge.  Node runs the handlers on one thread, so every action   *)
(* below is one synchronous segment of a handler: from its invocation or   *)
(* the resumption of an await up to the next await on I/O or a timer.      *)
(***************************************************************************)
EXTENDS Integers, Sequences, FiniteSets, TLC

(***************************************************************************)
(* Bounds of the model.                                                    *)
(***************************************************************************)
MaxTasks == 2      \* handler invocations of executeQuery alive at once
MaxEvents == 3     \* messages one agent stream yields (SpecTask)
MaxRaceEvents == 0 \* the same where invocations race (Spec)
MaxStoreEvents == 1 \* the same where the session store ages (SpecStore)
MaxThunks == 4     \* schedule() calls on one RateLimiter (SpecLimiter)
MaxItems == 3      \* enqueue() calls on one AsyncQueue (SpecQueue)
MaxFold == 4       \* messages one StreamProcessor folds (SpecFold)
Interval == 2      \* the RateLimiter's interval, in clock ticks (SpecLimiter)

(***************************************************************************)
(* Program constants.  Time is counted in days for the session store:      *)
(* SESSION_TTL_MS = 24 h = 1 day.                                          *)
(***************************************************************************)
SESSION_TTL == 1

Keys == {"A", "B"}                 \* msg.userId
Tasks == 1..MaxTasks
Dirs == {"/d1", "/d2"}             \* resolved directories that exist
SessionIds == {"s1", "s2"}         \* session ids the SDK reports
Undefined == "undefined"           \* JavaScript undefined
Absent == [absent |-> TRUE]        \* no entry in a Map
NoTask == 0                        \* runningTasks has no entry for the key
NoThunk == [thunk |-> "none"]      \* RateLimiter holds no pending thunk
NoReply == [kind |-> "none", key |-> "none"]  \* the step sent no such reply
NoUnit == [unit |-> "none"]        \* no component stands on its own
NoText == <<Undefined>>            \* an optional text that is undefined
ErrMessages == {<<>>, <<"boom">>}  \* err.message of an error the SDK throws

\* JavaScript truthiness of a string-or-undefined value.
Truthy(x) == x # Undefined /\ x # ""
\* The same for a text, a sequence of tokens: '' is <<>>.
TruthyText(x) == x # NoText /\ x # <<>>

VARIABLES
  defaultWorkingDirectory, \* SessionManager.defaultWorkingDirectory
  sessions,                \* SessionManager.sessions: key -> UserSession
  sweepRunning,            \* SessionManager.cleanupTimer is set
  runningTasks,            \* MessageBridge.runningTasks: key -> owning task
  tasks,                   \* the executeQuery invocations, by slot
  reply,                   \* the rejection or /stop reply of the latest step
  unit                     \* a RateLimiter, AsyncQueue or StreamProcessor on
                           \* its own, with its caller (the component
                           \* specifications below); unused by the bridge

vars == <<defaultWorkingDirectory, sessions, sweepRunning, runningTasks, tasks, reply, unit>>

(***************************************************************************)
(* SessionManager.  A UserSession is [sessionId, workingDirectory, idle];  *)
(* idle is now - lastUsed in days, saturated above the TTL.                *)
(***************************************************************************)
NewSession ==
  [sessionId |-> Undefined, workingDirectory |-> defaultWorkingDirectory, idle |-> 0]

\* getSession(userId): create when missing, refresh lastUsed; the map after it.
GetSession(ss, k) ==
  [ss EXCEPT ![k] = IF ss[k] = Absent THEN NewSession ELSE [ss[k] EXCEPT !.idle = 0]]

\* Mutant: the session id is not written.
SetSessionIdDropped(ss, k, sid) == GetSession(ss, k)

SetSessionId(ss, k, sid) ==
  [GetSession(ss, k) EXCEPT ![k].sessionId = sid]

\* Mutant: the handle survives a change of directory.
SetWorkingDirectoryKeepsHandle(ss, k, dir) ==
  [GetSession(ss, k) EXCEPT ![k].workingDirectory = dir]

SetWorkingDirectory(ss, k, dir) ==
  LET s1 == GetSession(ss, k)
      s2 == IF s1[k].workingDirectory # dir /\ Truthy(s1[k].sessionId)
            THEN [s1 EXCEPT ![k].sessionId = Undefined]
            ELSE s1
  IN [s2 EXCEPT ![k].workingDirectory = dir]

\* Mutant: reset forgets the working directory as well.
ResetSessionDropsDirectory(ss, k) ==
  IF ss[k] # Absent
  THEN [ss EXCEPT ![k].sessionId = Undefined, ![k].workingDirectory = Undefined]
  ELSE ss

ResetSession(ss, k) ==
  IF ss[k] # Absent THEN [ss EXCEPT ![k].sessionId = Undefined] ELSE ss

HasWorkingDirectory(ss, k) == Truthy(GetSession(ss, k)[k].workingDirectory)

CleanupExpired(ss) ==
  [k \in Keys |-> IF ss[k] # Absent /\ ss[k].idle > SESSION_TTL THEN Absent ELSE ss[k]]

(***************************************************************************)
(* StreamProcessor.  Text is a sequence of tokens; a processor is          *)
(* [responseText, toolCalls, currentToolName, sessionId].                  *)
(***************************************************************************)
NewProcessor ==
  [responseText |-> <<>>, toolCalls |-> <<>>, currentToolName |-> Undefined,
   sessionId |-> Undefined]

\* SDK messages of the kinds the drive loop is fed with.
SystemMsg(sid) ==
  [type |-> "system", subtype |-> "init", session_id |-> sid, parent |-> Undefined,
   content |-> <<>>, result |-> <<>>, errors |-> <<>>]
AssistantMsg(sid, blocks) ==
  [type |-> "assistant", subtype |-> Undefined, session_id |-> sid, parent |-> Undefined,
   content |-> blocks, result |-> <<>>, errors |-> <<>>]
ResultMsg(sid, subtype, errs) ==
  [type |-> "result", subtype |-> subtype, session_id |-> sid, parent |-> Undefined,
   content |-> <<>>, result |-> <<>>, errors |-> errs]
\* A stream_event message: ev is message.event; parent is parent_tool_use_id.
StreamEventMsg(sid, parent, ev) ==
  [type |-> "stream_event", subtype |-> Undefined, session_id |-> sid, parent |-> parent,
   content |-> <<>>, result |-> <<>>, errors |-> <<>>, event |-> ev]
\* message.event: content_block_start with a block, content_block_delta with
\* a text_delta, content_block_stop.
BlockStart(block) == [type |-> "content_block_start", block |-> block, text |-> <<>>]
TextDelta(txt) == [type |-> "content_block_delta", block |-> Undefined, text |-> txt]
BlockStop == [type |-> "content_block_stop", block |-> Undefined, text |-> <<>>]
\* A stream_event message that carries no event.
NoEvent == [type |-> Undefined, block |-> Undefined, text |-> <<>>]
TextBlock(txt) == [type |-> "text", text |-> txt, name |-> Undefined]
ToolUseBlock(name) == [type |-> "tool_use", text |-> <<>>, name |-> name]
ToolResultBlock == [type |-> "tool_result", text |-> <<>>, name |-> Undefined]

\* The first entry with this name that is still running, or 0.
FindRunning(tcs, name) ==
  LET hits == {i \in 1..Len(tcs) : tcs[i].name = name /\ tcs[i].status = "running"}
  IN IF hits = {} THEN 0 ELSE CHOOSE i \in hits : \A j \in hits : i <= j

CompleteCurrentTool(p) ==
  IF Truthy(p.currentToolName)
  THEN LET i == FindRunning(p.toolCalls, p.currentToolName)
       IN [p EXCEPT !.toolCalls = IF i = 0 THEN @ ELSE [@ EXCEPT ![i].status = "done"],
                    !.currentToolName = Undefined]
  ELSE p

\* Mutant: a tool that was called before is set running again, in place.
AddToolCallReopens(p, name) ==
  LET q == CompleteCurrentTool(p)
      old == {i \in 1..Len(q.toolCalls) : q.toolCalls[i].name = name}
  IN IF old = {}
     THEN [q EXCEPT !.currentToolName = name,
                    !.toolCalls = Append(@, [name |-> name, status |-> "running"])]
     ELSE [q EXCEPT !.currentToolName = name,
                    !.toolCalls = [i \in 1..Len(@) |->
                       IF i \in old THEN [@[i] EXCEPT !.status = "running"] ELSE @[i]]]

\* Mutant: a tool call is opened without closing the one that is open.
AddToolCallKeepsOpen(p, name) ==
  [p EXCEPT !.currentToolName = name,
            !.toolCalls = Append(@, [name |-> name, status |-> "running"])]

AddToolCall(p, name) ==
  LET q == CompleteCurrentTool(p)
  IN [q EXCEPT !.currentToolName = name,
               !.toolCalls = Append(@, [name |-> name, status |-> "running"])]

ProcessBlock(p, m, b) ==
  IF b.type = "text" /\ b.text # <<>>
  THEN IF m.parent = Undefined THEN [p EXCEPT !.responseText = b.text] ELSE p
  ELSE IF b.type = "tool_use" /\ Truthy(b.name) THEN AddToolCall(p, b.name)
  ELSE IF b.type = "tool_result" THEN CompleteCurrentTool(p)
  ELSE p

RECURSIVE ProcessBlocks(_, _, _)
ProcessBlocks(p, m, i) ==
  IF i > Len(m.content) THEN p
  ELSE ProcessBlocks(ProcessBlock(p, m, m.content[i]), m, i + 1)

ProcessAssistantMessage(p, m) == ProcessBlocks(p, m, 1)

\* Mutant: the events of a subagent are processed like top-level ones.
ProcessStreamEventAnyParent(p, m) ==
  IF m.event = NoEvent THEN p
  ELSE IF m.event.type = "content_block_start"
       THEN IF m.event.block.type = "tool_use" /\ Truthy(m.event.block.name)
            THEN AddToolCall(p, m.event.block.name) ELSE p
  ELSE IF m.event.type = "content_block_delta" /\ m.event.text # <<>>
       THEN [p EXCEPT !.responseText = @ \o m.event.text]
  ELSE p

\* processStreamEvent: top-level events only; a tool_use block that starts
\* opens a tool call, a text delta is appended to the response text.
ProcessStreamEvent(p, m) ==
  IF m.event = NoEvent THEN p
  ELSE IF m.parent # Undefined THEN p
  ELSE IF m.event.type = "content_block_start"
       THEN IF m.event.block.type = "tool_use" /\ Truthy(m.event.block.name)
            THEN AddToolCall(p, m.event.block.name) ELSE p
  ELSE IF m.event.type = "content_block_delta" /\ m.event.text # <<>>
       THEN [p EXCEPT !.responseText = @ \o m.event.text]
  ELSE p

\* errors.join('; ') on token sequences.
RECURSIVE JoinErrors(_)
JoinErrors(errs) ==
  IF Len(errs) = 0 THEN <<>>
  ELSE IF Len(errs) = 1 THEN <<errs[1]>>
  ELSE <<errs[1], "; ">> \o JoinErrors(Tail(errs))

\* Mutant: the result leaves the tool calls as they are.
ProcessResultMessageKeepsTools(p, m) ==
  LET isError == m.subtype # "success"
  IN [proc |-> p,
      state |-> [status |-> IF isError THEN "error" ELSE "complete",
                 responseText |-> IF m.result # <<>> THEN m.result ELSE p.responseText,
                 toolCalls |-> p.toolCalls,
                 errorMessage |-> IF isError
                                  THEN (IF JoinErrors(m.errors) # <<>> THEN JoinErrors(m.errors)
                                        ELSE <<"Ended with: ", m.subtype>>)
                                  ELSE NoText]]

\* Mutant: an error result without error strings gets an empty message.
ProcessResultMessageNoFallback(p, m) ==
  LET q == [p EXCEPT !.toolCalls =
                [i \in 1..Len(p.toolCalls) |-> [p.toolCalls[i] EXCEPT !.status = "done"]]]
      isError == m.subtype # "success"
  IN [proc |-> q,
      state |-> [status |-> IF isError THEN "error" ELSE "complete",
                 responseText |-> IF m.result # <<>> THEN m.result ELSE q.responseText,
                 toolCalls |-> q.toolCalls,
                 errorMessage |-> IF isError THEN JoinErrors(m.errors) ELSE NoText]]

\* processResultMessage: the processor after it and the CardState it returns.
ProcessResultMessage(p, m) ==
  LET q == [p EXCEPT !.toolCalls =
                [i \in 1..Len(p.toolCalls) |-> [p.toolCalls[i] EXCEPT !.status = "done"]]]
      isError == m.subtype # "success"
  IN [proc |-> q,
      state |-> [status |-> IF isError THEN "error" ELSE "complete",
                 responseText |-> IF m.result # <<>> THEN m.result ELSE q.responseText,
                 toolCalls |-> q.toolCalls,
                 errorMessage |-> IF isError
                                  THEN (IF JoinErrors(m.errors) # <<>> THEN JoinErrors(m.errors)
                                        ELSE <<"Ended with: ", m.subtype>>)
                                  ELSE NoText]]

\* Mutant: the status is derived from the response text alone.
ProcessMessageStatusFromText(p0, m) ==
  LET p == IF Truthy(m.session_id) /\ ~Truthy(p0.sessionId)
           THEN [p0 EXCEPT !.sessionId = m.session_id] ELSE p0
  IN IF m.type = "result" THEN ProcessResultMessage(p, m)
     ELSE LET q == IF m.type = "assistant" THEN ProcessAssistantMessage(p, m)
                   ELSE IF m.type = "stream_event" THEN ProcessStreamEvent(p, m)
                   ELSE p
          IN [proc |-> q,
              state |-> [status |-> IF q.responseText # <<>> THEN "running" ELSE "thinking",
                         responseText |-> q.responseText,
                         toolCalls |-> q.toolCalls,
                         errorMessage |-> NoText]]

\* Mutant: every message that carries a session id overwrites the one held.
ProcessMessageLatestSession(p0, m) ==
  LET p == IF Truthy(m.session_id)
           THEN [p0 EXCEPT !.sessionId = m.session_id] ELSE p0
  IN IF m.type = "result" THEN ProcessResultMessage(p, m)
     ELSE LET q == IF m.type = "assistant" THEN ProcessAssistantMessage(p, m)
                   ELSE IF m.type = "stream_event" THEN ProcessStreamEvent(p, m)
                   ELSE p
              hasActiveTools == \E i \in 1..Len(q.toolCalls) : q.toolCalls[i].status = "running"
          IN [proc |-> q,
              state |-> [status |-> IF hasActiveTools THEN "running"
                                    ELSE IF q.responseText # <<>> THEN "running"
                                    ELSE "thinking",
                         responseText |-> q.responseText,
                         toolCalls |-> q.toolCalls,
                         errorMessage |-> NoText]]

\* processMessage: the processor after it and the CardState it returns.
ProcessMessage(p0, m) ==
  LET p == IF Truthy(m.session_id) /\ ~Truthy(p0.sessionId)
           THEN [p0 EXCEPT !.sessionId = m.session_id] ELSE p0
  IN IF m.type = "result" THEN ProcessResultMessage(p, m)
     ELSE LET q == IF m.type = "assistant" THEN ProcessAssistantMessage(p, m)
                   ELSE IF m.type = "stream_event" THEN ProcessStreamEvent(p, m)
                   ELSE p
              hasActiveTools == \E i \in 1..Len(q.toolCalls) : q.toolCalls[i].status = "running"
          IN [proc |-> q,
              state |-> [status |-> IF hasActiveTools THEN "running"
                                    ELSE IF q.responseText # <<>> THEN "running"
                                    ELSE "thinking",
                         responseText |-> q.responseText,
                         toolCalls |-> q.toolCalls,
                         errorMessage |-> NoText]]

(***************************************************************************)
(* RateLimiter: [window, pending].  window: an interval is open (its timer *)
(* runs); pending: the thunk retained for the end of the window.  Each     *)
(* operation gives the limiter after it and the thunk it executed.         *)
(***************************************************************************)
NewLimiter == [window |-> FALSE, pending |-> NoThunk]

\* Mutant: a thunk that is pending is not replaced by a later one.
RLScheduleKeepsFirst(l, thunk) ==
  IF ~l.window
  THEN [lim |-> [window |-> TRUE, pending |-> NoThunk], run |-> thunk]
  ELSE [lim |-> IF l.pending = NoThunk THEN [l EXCEPT !.pending = thunk] ELSE l,
        run |-> NoThunk]

\* Mutant: schedule() executes the thunk at once, window or not.
RLScheduleAlwaysRuns(l, thunk) ==
  [lim |-> [window |-> TRUE, pending |-> NoThunk], run |-> thunk]

RLSchedule(l, thunk) ==
  IF ~l.window
  THEN [lim |-> [window |-> TRUE, pending |-> NoThunk], run |-> thunk]
  ELSE [lim |-> [l EXCEPT !.pending = thunk], run |-> NoThunk]

\* Mutant: the window stays open when it elapses with nothing pending.
RLElapseStaysOpen(l) ==
  [lim |-> [window |-> TRUE, pending |-> NoThunk], run |-> l.pending]

RLElapse(l) ==
  IF l.pending # NoThunk
  THEN [lim |-> [window |-> TRUE, pending |-> NoThunk], run |-> l.pending]
  ELSE [lim |-> [window |-> FALSE, pending |-> NoThunk], run |-> NoThunk]

\* Mutant: flush discards the pending thunk instead of executing it.
RLFlushDiscards(l) == [lim |-> [l EXCEPT !.pending = NoThunk], run |-> NoThunk]

\* Mutant: flush executes the pending thunk and leaves it pending.
RLFlushKeepsPending(l) == [lim |-> l, run |-> l.pending]

RLFlush(l) ==
  IF l.pending # NoThunk
  THEN [lim |-> [l EXCEPT !.pending = NoThunk], run |-> l.pending]
  ELSE [lim |-> l, run |-> NoThunk]

\* cancel(): the pending thunk is discarded.
\* Mutant: cancel leaves the pending thunk in place.
RLCancelKeepsPending(l) == [lim |-> l, run |-> NoThunk]

RLCancel(l) == [lim |-> [l EXCEPT !.pending = NoThunk], run |-> NoThunk]

\* Mutant: cancelAndWait runs the pending thunk, as flush does.
RLCancelAndWaitRunsPending(l) ==
  [lim |-> [l EXCEPT !.pending = NoThunk], run |-> l.pending, wait |-> l.window]

\* cancelAndWait(): the pending thunk is discarded; wait: the caller is
\* suspended until the open window has elapsed.
RLCancelAndWait(l) ==
  [lim |-> [l EXCEPT !.pending = NoThunk], run |-> NoThunk, wait |-> l.window]

(***************************************************************************)
(* MessageBridge.  A task is one invocation of executeQuery; pc is the     *)
(* await it is suspended at:                                               *)
(*   free      the slot was never used                                     *)
(*   download  await sender.downloadImage          (line 195)              *)
(*   initial   await sender.sendCard(initial card) (line 213)              *)
(*   stream    for await (const message of stream) (line 233)              *)
(*   flushing  await rateLimiter.flush()           (lines 254, 271)        *)
(*   final     await sender.updateCard(final card) (lines 257, 272)        *)
(*   images    await sendImageFile in sendOutputImages (line 305)          *)
(*   done      executeQuery returned                                       *)
(*   thrown    executeQuery rejected                                       *)
(* The reply cards are calls of the messaging client that leave no state   *)
(* in the program.  reply records, for the latest step alone, the card of  *)
(* a rejected message ("nodir", "busy"), of /stop ("stopped", "nothing"),  *)
(* of a /cd that set the directory ("cd") or of /reset ("reset"); the      *)
(* other reply cards are in the comments of their actions.                 *)
(***************************************************************************)
InitialState ==
  [status |-> "thinking", responseText |-> <<>>, toolCalls |-> <<>>,
   errorMessage |-> NoText]

LiveRef == [live |-> TRUE, sessionId |-> Undefined]

FreeTask ==
  [pc |-> "free", key |-> "A", aborted |-> FALSE, timerArmed |-> FALSE,
   hasImage |-> FALSE, staged |-> FALSE, session |-> LiveRef, cwd |-> Undefined,
   resume |-> Undefined, nEvents |-> 0,
   proc |-> NewProcessor, lastState |-> InitialState, final |-> InitialState,
   caught |-> FALSE, raised |-> NoText, limiter |-> NewLimiter, renders |-> <<>>,
   snaps |-> <<>>]

\* executeQuery returns: its locals are gone, and the log of the renders
\* of its card is closed (renders of a returned task are renders issued
\* after its return).  What stays is what others hold: the staged file, and
\* the limiter while its timer holds a thunk to run.
Returned(tk) ==
  [FreeTask EXCEPT !.pc = "done", !.key = tk.key, !.staged = tk.staged,
                   !.limiter = IF tk.limiter.pending = NoThunk THEN NewLimiter
                               ELSE tk.limiter]

Reply(kind, k) == [kind |-> kind, key |-> k]

\* The task has opened its stream and consumes or finalises it.
Active(t) == tasks[t].pc \in {"stream", "flushing", "final", "images"}
Ended(t) == tasks[t].pc \in {"free", "done", "thrown"}

\* A slot a new invocation can take: nothing of the old invocation is left.
Free(t) ==
  /\ Ended(t)
  /\ \A k \in Keys : runningTasks[k] # t
  /\ ~tasks[t].timerArmed
  /\ ~tasks[t].limiter.window

\* session.sessionId as the task's local `session` reads it: the object of
\* the map, or the object it held when the sweep deleted it from the map.
SessionIdOf(t) ==
  IF tasks[t].session.live /\ sessions[tasks[t].key] # Absent
  THEN sessions[tasks[t].key].sessionId
  ELSE tasks[t].session.sessionId

\* The id of a session the SDK starts for task t.
FreshSessionId(t) == IF t = 1 THEN "s1" ELSE "s2"

\* Mutant: the busy check is missing.
AdmissionNoBusyCheck(ss, rt, k) ==
  IF ~HasWorkingDirectory(ss, k) THEN "nodir" ELSE "admit"

\* Mutant: the working-directory check is missing.
AdmissionNoDirCheck(ss, rt, k) ==
  IF rt[k] # NoTask THEN "busy" ELSE "admit"

\* Mutant: a task of any key makes the bridge busy.
AdmissionBusyAnyKey(ss, rt, k) ==
  IF ~HasWorkingDirectory(ss, k) THEN "nodir"
  ELSE IF \E j \in Keys : rt[j] # NoTask THEN "busy"
  ELSE "admit"

\* handleMessage, lines 50-77: which way a non-command message goes.
Admission(ss, rt, k) ==
  IF ~HasWorkingDirectory(ss, k) THEN "nodir"
  ELSE IF rt[k] # NoTask THEN "busy"
  ELSE "admit"

\* executeQuery up to its first await.  mkdirOk: fs.mkdirSync did not throw.
ExecuteQuery(t, k, img, mkdirOk) ==
  LET ss == GetSession(sessions, k)
  IN /\ sessions' = ss
     /\ runningTasks' = [runningTasks EXCEPT ![k] = t]
     /\ tasks' = [tasks EXCEPT ![t] =
           [FreeTask EXCEPT !.key = k, !.timerArmed = TRUE, !.hasImage = img,
                            !.cwd = ss[k].workingDirectory,
                            !.pc = IF ~img THEN "initial"
                                   ELSE IF mkdirOk THEN "download" ELSE "thrown"]]

\* handleMessage for a non-command text.  Replies "Working Directory Not
\* Set" or "Task In Progress", or runs executeQuery in the least free slot.
HandleMessage(k, img, mkdirOk, slots) ==
  LET how == Admission(sessions, runningTasks, k)
  IN /\ (mkdirOk \/ img)
     /\ IF how = "admit"
        THEN \E t \in slots :
               /\ Free(t)
               /\ \A u \in slots : Free(u) => t <= u
               /\ ExecuteQuery(t, k, img, mkdirOk)
        ELSE /\ mkdirOk /\ ~img
             /\ sessions' = GetSession(sessions, k)
             /\ UNCHANGED <<runningTasks, tasks>>
     /\ reply' = (IF how = "admit" THEN NoReply ELSE Reply(how, k))
     /\ UNCHANGED <<unit, defaultWorkingDirectory, sweepRunning>>

\* await downloadImage resumes; ok: the file was written.
DownloadDone(t, ok) ==
  /\ tasks[t].pc = "download"
  /\ tasks' = [tasks EXCEPT ![t].pc = "initial", ![t].staged = ok]
  /\ reply' = NoReply
  /\ UNCHANGED <<unit, defaultWorkingDirectory, sessions, sweepRunning, runningTasks>>

\* await sendCard(initial card) resumes; ok: a message id came back.  With
\* one the stream is opened with the session's handle as it is now.
InitialCardDone(t, ok) ==
  /\ tasks[t].pc = "initial"
  /\ IF ok
     THEN /\ tasks' = [tasks EXCEPT ![t].pc = "stream", ![t].resume = SessionIdOf(t)]
          /\ UNCHANGED runningTasks
     ELSE /\ tasks' = [tasks EXCEPT ![t] = Returned([@ EXCEPT !.timerArmed = FALSE])]
          /\ runningTasks' = [runningTasks EXCEPT ![tasks[t].key] = NoTask]
  /\ reply' = NoReply
  /\ UNCHANGED <<unit, defaultWorkingDirectory, sessions, sweepRunning>>

\* The session ids the messages of task t's stream can carry: the one of a
\* new session, or the one it resumed.
StreamSessionIds(t) == {FreshSessionId(t)} \cup ({tasks[t].resume} \cap SessionIds)

\* The messages the SDK stream of task t can yield next.
StreamEvents(t) ==
  UNION {{SystemMsg(sid),
          AssistantMsg(sid, <<TextBlock(<<"hi">>), ToolUseBlock("Bash")>>),
          ResultMsg(sid, "success", <<>>),
          ResultMsg(sid, "error_max_turns", <<>>)} : sid \in StreamSessionIds(t)}

MsgTypes == {"system", "assistant", "result"}

Terminal(state) == state.status \in {"complete", "error"}

Render(via, state) == [via |-> via, state |-> state]

\* The renders of a card after the limiter executed thunk `run` (or none).
Rendered(rs, run) == IF run = NoThunk THEN rs ELSE Append(rs, Render("throttled", run))

\* Mutant: terminal snapshots go through the throttled path as well.
ShouldThrottleAlways(state) == TRUE

\* Line 246: the snapshot is scheduled for a throttled card update.
ShouldThrottle(state) == state.status # "complete" /\ state.status # "error"

\* Mutant: the pending update is not flushed before the final card.
FlushBeforeFinalSkipped(l) == [lim |-> l, run |-> NoThunk]

\* Mutant: the flush runs the pending update and leaves it pending.
FlushBeforeFinalKeepsPending(l) == [lim |-> l, run |-> l.pending]

\* Lines 254 and 271: await rateLimiter.flush().
FlushBeforeFinal(l) == RLFlush(l)

\* Mutant: the error card forgets what was folded so far.
ErrorStateBlank(last, message) ==
  [status |-> "error", responseText |-> <<>>, toolCalls |-> <<>>,
   errorMessage |-> IF TruthyText(message) THEN message ELSE <<"Unknown error">>]

\* Lines 264-270: the CardState of the catch block.
ErrorState(last, message) ==
  [status |-> "error", responseText |-> last.responseText, toolCalls |-> last.toolCalls,
   errorMessage |-> IF TruthyText(message) THEN message ELSE <<"Unknown error">>]

\* The task record when the drive loop is left (break, end of stream or catch):
\* flush() runs the pending thunk and the task awaits it.
LeaveLoop(tk, caught, final) ==
  LET f == FlushBeforeFinal(tk.limiter)
  IN [tk EXCEPT !.pc = "flushing", !.caught = caught, !.final = final,
                !.limiter = f.lim, !.renders = Rendered(@, f.run)]

\* Line 275: this.runningTasks.delete(userId).
FinallyDelete(rt, k) == [rt EXCEPT ![k] = NoTask]

\* The finally block, lines 273-280.
Finally(t) ==
  /\ tasks' = [tasks EXCEPT ![t] = Returned([@ EXCEPT !.timerArmed = FALSE, !.staged = FALSE])]
  /\ runningTasks' = FinallyDelete(runningTasks, tasks[t].key)

\* Mutant: the drive loop does not look at the abort signal.
AbortedCheckNever(tk) == FALSE

\* Line 234: abortController.signal.aborted.
AbortedCheck(tk) == tk.aborted

\* The stream yields message m: one iteration of the drive loop.  No message
\* follows a result message; at most maxEv messages are folded, of the types
\* in kinds.
StreamMessage(t, m, maxEv, kinds) ==
  LET tk == tasks[t]
      pm == ProcessMessage(tk.proc, m)
      newSessionId == pm.proc.sessionId
      r == IF ShouldThrottle(pm.state) THEN RLSchedule(tk.limiter, pm.state)
           ELSE [lim |-> tk.limiter, run |-> NoThunk]
  IN /\ tk.pc = "stream"
     /\ m \in StreamEvents(t)
     /\ ~Terminal(tk.lastState)
     /\ IF AbortedCheck(tk)
        THEN /\ tasks' = [tasks EXCEPT ![t] = LeaveLoop(tk, FALSE, tk.lastState)]
             /\ UNCHANGED sessions
        ELSE /\ tk.nEvents < maxEv
             /\ m.type \in kinds
             /\ tasks' = [tasks EXCEPT ![t].proc = pm.proc,
                                       ![t].lastState = pm.state,
                                       ![t].snaps = Append(@, pm.state),
                                       ![t].nEvents = @ + 1,
                                       ![t].limiter = r.lim,
                                       ![t].renders = Rendered(@, r.run)]
             /\ sessions' = IF Truthy(newSessionId) /\ newSessionId # SessionIdOf(t)
                            THEN SetSessionId(sessions, tk.key, newSessionId)
                            ELSE sessions
     /\ reply' = NoReply
     /\ UNCHANGED <<unit, defaultWorkingDirectory, sweepRunning, runningTasks>>

\* The stream ends: the SDK is done, or it threw after an abort and
\* ClaudeExecutor.execute returned (lines 93-97).
StreamEnd(t) ==
  /\ tasks[t].pc = "stream"
  /\ tasks' = [tasks EXCEPT ![t] = LeaveLoop(tasks[t], FALSE, tasks[t].lastState)]
  /\ reply' = NoReply
  /\ UNCHANGED <<unit, defaultWorkingDirectory, sessions, sweepRunning, runningTasks>>

\* The SDK throws an error with this message while no abort was signalled:
\* execute rethrows it (line 98) and the catch block takes it as err
\* (raised is err.message).
StreamError(t, message) ==
  /\ tasks[t].pc = "stream"
  /\ ~tasks[t].aborted
  /\ tasks' = [tasks EXCEPT ![t] =
        [LeaveLoop(tasks[t], TRUE, ErrorState(tasks[t].lastState, message))
           EXCEPT !.raised = message]]
  /\ reply' = NoReply
  /\ UNCHANGED <<unit, defaultWorkingDirectory, sessions, sweepRunning, runningTasks>>

\* await flush() resumes: the final card is sent (lines 257, 272).
FlushDone(t) ==
  /\ tasks[t].pc = "flushing"
  /\ tasks' = [tasks EXCEPT ![t].pc = "final",
                            ![t].renders = Append(@, Render("final", tasks[t].final))]
  /\ reply' = NoReply
  /\ UNCHANGED <<unit, defaultWorkingDirectory, sessions, sweepRunning, runningTasks>>

\* await updateCard(final card) resumes.  From the catch block the finally
\* block follows; else sendOutputImages (images: it has a file to send).
FinalCardDone(t, images) ==
  /\ tasks[t].pc = "final"
  /\ IF images /\ ~tasks[t].caught
     THEN /\ tasks' = [tasks EXCEPT ![t].pc = "images"]
          /\ UNCHANGED runningTasks
     ELSE /\ ~images
          /\ Finally(t)
  /\ reply' = NoReply
  /\ UNCHANGED <<unit, defaultWorkingDirectory, sessions, sweepRunning>>

\* sendOutputImages has sent its files.
ImagesDone(t) ==
  /\ tasks[t].pc = "images"
  /\ Finally(t)
  /\ reply' = NoReply
  /\ UNCHANGED <<unit, defaultWorkingDirectory, sessions, sweepRunning>>

\* The timeout timer of lines 183-186 fires.
Timeout(t) ==
  /\ tasks[t].timerArmed
  /\ tasks' = [tasks EXCEPT ![t].aborted = TRUE, ![t].timerArmed = FALSE]
  /\ reply' = NoReply
  /\ UNCHANGED <<unit, defaultWorkingDirectory, sessions, sweepRunning, runningTasks>>

\* The window of the task's RateLimiter elapses.
WindowElapsed(t) ==
  LET r == RLElapse(tasks[t].limiter)
  IN /\ tasks[t].limiter.window
     /\ tasks' = [tasks EXCEPT ![t].limiter = r.lim, ![t].renders = Rendered(@, r.run)]
     /\ reply' = NoReply
     /\ UNCHANGED <<unit, defaultWorkingDirectory, sessions, sweepRunning, runningTasks>>

(***************************************************************************)
(* Commands (handleCommand).  Each is synchronous up to the await of its   *)
(* reply card, after which nothing follows.                                *)
(***************************************************************************)
\* /help, /status and unknown commands.  /status reads the session.
CmdStatus(k) ==
  /\ sessions' = GetSession(sessions, k)
  /\ reply' = NoReply
  /\ UNCHANGED <<unit, defaultWorkingDirectory, sweepRunning, runningTasks, tasks>>

\* /cd arg: "" is no argument, "/file" is no directory, "/missing" does not
\* exist; these reply usage or an error.
CdArgs == {"", "/file", "/missing"} \cup Dirs

CmdCd(k, arg) ==
  /\ arg \in CdArgs
  /\ sessions' = IF arg \in Dirs THEN SetWorkingDirectory(sessions, k, arg) ELSE sessions
  /\ reply' = (IF arg \in Dirs THEN Reply("cd", k) ELSE NoReply)
  /\ UNCHANGED <<unit, defaultWorkingDirectory, sweepRunning, runningTasks, tasks>>

CmdReset(k) ==
  /\ sessions' = ResetSession(sessions, k)
  /\ reply' = Reply("reset", k)
  /\ UNCHANGED <<unit, defaultWorkingDirectory, sweepRunning, runningTasks, tasks>>

\* Mutant: /stop removes the entry without signalling its abort controller.
StopTaskNoAbort(rt, ts, k) == [rt |-> [rt EXCEPT ![k] = NoTask], tasks |-> ts]

\* Lines 138-141: the table and the tasks after /stop found an entry.
StopTask(rt, ts, k) ==
  [rt |-> [rt EXCEPT ![k] = NoTask], tasks |-> [ts EXCEPT ![rt[k]].aborted = TRUE]]

\* /stop: replies "Stopped" or "No Running Task".
CmdStop(k) ==
  /\ IF runningTasks[k] # NoTask
     THEN LET r == StopTask(runningTasks, tasks, k)
          IN /\ runningTasks' = r.rt
             /\ tasks' = r.tasks
             /\ reply' = Reply("stopped", k)
     ELSE /\ reply' = Reply("nothing", k)
          /\ UNCHANGED <<runningTasks, tasks>>
  /\ UNCHANGED <<unit, defaultWorkingDirectory, sessions, sweepRunning>>

(***************************************************************************)
(* Time, the hourly sweep and shutdown.                                    *)
(***************************************************************************)
\* Tasks whose local `session` is still read (lines 229, 241).
HoldsSession(t) == tasks[t].pc \in {"download", "initial", "stream"}

\* setInterval(() => this.cleanupExpired(), ...) fires.
Sweep ==
  /\ sweepRunning
  /\ sessions' = CleanupExpired(sessions)
  /\ tasks' = [t \in Tasks |->
       IF /\ HoldsSession(t) /\ tasks[t].session.live
          /\ sessions[tasks[t].key] # Absent
          /\ CleanupExpired(sessions)[tasks[t].key] = Absent
       THEN [tasks[t] EXCEPT !.session =
               [live |-> FALSE, sessionId |-> sessions[tasks[t].key].sessionId]]
       ELSE tasks[t]]
  /\ reply' = NoReply
  /\ UNCHANGED <<unit, defaultWorkingDirectory, sweepRunning, runningTasks>>

\* A day passes.  The task timeout (10 minutes) and the limiter window
\* (1.5 s) are shorter: their timers have fired by then.
Tick ==
  /\ \A t \in Tasks : ~tasks[t].timerArmed /\ ~tasks[t].limiter.window
  /\ \E k \in Keys : sessions[k] # Absent /\ sessions[k].idle <= SESSION_TTL
  /\ sessions' = [k \in Keys |->
       IF sessions[k] # Absent /\ sessions[k].idle <= SESSION_TTL
       THEN [sessions[k] EXCEPT !.idle = @ + 1] ELSE sessions[k]]
  /\ reply' = NoReply
  /\ UNCHANGED <<unit, defaultWorkingDirectory, sweepRunning, runningTasks, tasks>>

\* Mutant: shutdown leaves the sweep of the session store running.
DestroyLeavesSweep ==
  /\ sweepRunning
  /\ tasks' = [t \in Tasks |->
       IF \E k \in Keys : runningTasks[k] = t
       THEN [tasks[t] EXCEPT !.aborted = TRUE] ELSE tasks[t]]
  /\ runningTasks' = [k \in Keys |-> NoTask]
  /\ reply' = NoReply
  /\ UNCHANGED <<unit, defaultWorkingDirectory, sessions, sweepRunning>>

\* MessageBridge.destroy, lines 314-322.
Destroy ==
  /\ sweepRunning
  /\ tasks' = [t \in Tasks |->
       IF \E k \in Keys : runningTasks[k] = t
       THEN [tasks[t] EXCEPT !.aborted = TRUE] ELSE tasks[t]]
  /\ runningTasks' = [k \in Keys |-> NoTask]
  /\ sweepRunning' = FALSE
  /\ reply' = NoReply
  /\ UNCHANGED <<unit, defaultWorkingDirectory, sessions>>

Init ==
  /\ defaultWorkingDirectory \in {Undefined, "/d1"}
  /\ sessions = [k \in Keys |-> Absent]
  /\ sweepRunning = TRUE
  /\ runningTasks = [k \in Keys |-> NoTask]
  /\ tasks = [t \in Tasks |-> FreeTask]
  /\ reply = NoReply
  /\ unit = NoUnit

(***************************************************************************)
(* Scenarios.  A scenario sc fixes the inputs the steps draw from: the     *)
(* keys that send (sc.keys), the slots executeQuery runs in (sc.slots),    *)
(* images attached or not (sc.imgs), the arguments of /cd (sc.args), the   *)
(* number and the types of the messages a stream yields (sc.maxEv,         *)
(* sc.kinds), whether the agent leaves image files to send (sc.outs) and   *)
(* the messages of the errors a stream throws (sc.errs).                   *)
(***************************************************************************)
\* Incoming messages: texts and commands.
Incoming(sc) ==
  \/ \E k \in sc.keys, img \in sc.imgs, mkdirOk \in BOOLEAN :
       HandleMessage(k, img, mkdirOk, sc.slots)
  \/ \E k \in sc.keys : CmdStatus(k)
  \/ \E k \in sc.keys, arg \in sc.args : CmdCd(k, arg)
  \/ \E k \in sc.keys : CmdReset(k)
  \/ \E k \in sc.keys : CmdStop(k)

\* The resumptions of executeQuery on the way of a stream that ends.
Drive(sc) ==
  \/ \E t \in sc.slots, ok \in BOOLEAN : InitialCardDone(t, ok)
  \/ \E t \in sc.slots : \E m \in StreamEvents(t) : StreamMessage(t, m, sc.maxEv, sc.kinds)
  \/ \E t \in sc.slots : StreamEnd(t)
  \/ \E t \in sc.slots : FlushDone(t)
  \/ \E t \in sc.slots, images \in sc.outs : FinalCardDone(t, images)

\* A stream that throws, and the timeout of a task.
Faults(sc) ==
  \/ \E t \in sc.slots, message \in sc.errs : StreamError(t, message)
  \/ \E t \in sc.slots : Timeout(t)

\* Concurrent invocations for one key: admission, /stop, timeouts, shutdown.
Race ==
  [keys |-> {"A"}, slots |-> Tasks, imgs |-> BOOLEAN, args |-> {"", "/d1"},
   maxEv |-> MaxRaceEvents, kinds |-> MsgTypes, outs |-> {FALSE},
   errs |-> {<<"boom">>}]

\* One invocation with all that its stream can bring.
OneTask ==
  [keys |-> {"A"}, slots |-> {1}, imgs |-> {FALSE}, args |-> {"", "/d1"},
   maxEv |-> MaxEvents, kinds |-> MsgTypes, outs |-> BOOLEAN,
   errs |-> ErrMessages]

\* The session store over days, for two keys.
Store ==
  [keys |-> Keys, slots |-> {1}, imgs |-> {FALSE}, args |-> CdArgs,
   maxEv |-> MaxStoreEvents, kinds |-> {"result"}, outs |-> {FALSE},
   errs |-> {}]

Next ==
  \/ Incoming(Race)
  \/ \E t \in Race.slots, ok \in BOOLEAN : DownloadDone(t, ok)
  \/ Drive(Race)
  \/ Faults(Race)
  \/ Destroy

Spec == Init /\ [][Next]_vars

NextTask ==
  \/ Incoming(OneTask)
  \/ Drive(OneTask)
  \/ \E t \in OneTask.slots : WindowElapsed(t)
  \/ \E t \in OneTask.slots : ImagesDone(t)
  \/ Faults(OneTask)
  \/ Destroy

SpecTask == Init /\ [][NextTask]_vars

NextStore ==
  \/ Incoming(Store)
  \/ Drive(Store)
  \/ Sweep
  \/ Tick
  \/ Destroy

SpecStore == Init /\ [][NextStore]_vars

\* Shutdown with a task of each key under way, while the sweep runs.
Shutdown ==
  [keys |-> Keys, slots |-> Tasks, imgs |-> {FALSE}, args |-> {},
   maxEv |-> MaxRaceEvents, kinds |-> MsgTypes, outs |-> {FALSE},
   errs |-> {<<"boom">>}]

NextShutdown ==
  \/ \E k \in Shutdown.keys : HandleMessage(k, FALSE, TRUE, Shutdown.slots)
  \/ \E k \in Shutdown.keys : CmdStop(k)
  \/ Drive(Shutdown)
  \/ Faults(Shutdown)
  \/ Sweep
  \/ Tick
  \/ Destroy

SpecShutdown == Init /\ [][NextShutdown]_vars

\* Two keys with a task each, without faults and timers: key A sends
\* messages, /cd and /stop, key B messages only.
TwoKeys ==
  [keys |-> {"A"}, slots |-> Tasks, imgs |-> {FALSE}, args |-> {"/d2"},
   maxEv |-> MaxStoreEvents, kinds |-> {"system"}, outs |-> {FALSE},
   errs |-> {}]

NextTwoKeys ==
  \/ \E k \in Keys : HandleMessage(k, FALSE, TRUE, TwoKeys.slots)
  \/ \E k \in TwoKeys.keys, arg \in TwoKeys.args : CmdCd(k, arg)
  \/ \E k \in TwoKeys.keys : CmdStop(k)
  \/ Drive(TwoKeys)

SpecTwoKeys == Init /\ [][NextTwoKeys]_vars

(***************************************************************************)
(* Component specifications: one component on its own in unit, driven by   *)
(* a caller, while the bridge is at rest.                                  *)
(***************************************************************************)
bridgeVars == <<defaultWorkingDirectory, sessions, sweepRunning, runningTasks, tasks, reply>>

\* The bridge after construction, without a default directory.
AtRest ==
  /\ defaultWorkingDirectory = Undefined
  /\ sessions = [k \in Keys |-> Absent]
  /\ sweepRunning = TRUE
  /\ runningTasks = [k \in Keys |-> NoTask]
  /\ tasks = [t \in Tasks |-> FreeTask]
  /\ reply = NoReply

(***************************************************************************)
(* A RateLimiter and its caller.  The thunks are numbered in the order of  *)
(* the schedule() calls.  unit is                                          *)
(*   lim        the limiter                                                *)
(*   scheduled  the number of schedule() calls so far                      *)
(*   executed   the numbers of the thunks executed, in order               *)
(*   how        for each of them the operation that executed it            *)
(*   superseded the thunks that were pending when a later one was scheduled*)
(*   cancelled  the thunks that were pending when cancel() was called      *)
(*   abandoned  the same for cancelAndWait()                               *)
(*   waiting    a cancelAndWait() call has not resolved yet                *)
(*   last       the latest operation                                       *)
(*   age        the clock ticks since the open window started              *)
(*   since      the clock ticks since the latest execution, up to Interval *)
(***************************************************************************)
Thunk(i) == [thunk |-> "f", n |-> i]

NewLimiterUnit ==
  [lim |-> NewLimiter, scheduled |-> 0, executed |-> <<>>, how |-> <<>>,
   superseded |-> {}, cancelled |-> {}, abandoned |-> {}, waiting |-> FALSE,
   last |-> "new", age |-> 0, since |-> 0]

\* The thunk numbers a limiter holds pending: none or one.
PendingOf(l) == IF l.pending = NoThunk THEN {} ELSE {l.pending.n}

\* unit after operation op gave r: what it executed is logged.
Executed(u, r, op) ==
  [u EXCEPT !.lim = r.lim, !.last = op,
            !.executed = IF r.run = NoThunk THEN @ ELSE Append(@, r.run.n),
            !.how = IF r.run = NoThunk THEN @ ELSE Append(@, op),
            !.since = IF r.run = NoThunk THEN @ ELSE 0,
            !.age = IF (op = "schedule" /\ ~u.lim.window) \/ op = "elapse" THEN 0 ELSE @]

\* limiter.schedule(thunk) with the next thunk.
LimSchedule ==
  /\ ~unit.waiting
  /\ unit.scheduled < MaxThunks
  /\ LET r == RLSchedule(unit.lim, Thunk(unit.scheduled + 1))
     IN unit' = [Executed(unit, r, "schedule") EXCEPT
                   !.scheduled = @ + 1,
                   !.superseded = @ \cup (IF unit.lim.window THEN PendingOf(unit.lim) ELSE {})]
  /\ UNCHANGED bridgeVars

\* The timer of the open window fires; a caller of cancelAndWait resumes.
LimElapse ==
  /\ unit.lim.window
  /\ unit.age = Interval
  /\ unit' = [Executed(unit, RLElapse(unit.lim), "elapse") EXCEPT !.waiting = FALSE]
  /\ UNCHANGED bridgeVars

\* await limiter.flush().
LimFlush ==
  /\ ~unit.waiting
  /\ unit' = Executed(unit, RLFlush(unit.lim), "flush")
  /\ UNCHANGED bridgeVars

\* limiter.cancel().
LimCancel ==
  /\ ~unit.waiting
  /\ unit' = [Executed(unit, RLCancel(unit.lim), "cancel") EXCEPT
                !.cancelled = @ \cup PendingOf(unit.lim)]
  /\ UNCHANGED bridgeVars

\* await limiter.cancelAndWait(): the call; it resolves in LimElapse, or at
\* once when no window is open.
LimCancelAndWait ==
  /\ ~unit.waiting
  /\ LET r == RLCancelAndWait(unit.lim)
     IN unit' = [Executed(unit, r, "cancelAndWait") EXCEPT
                   !.abandoned = @ \cup PendingOf(unit.lim),
                   !.waiting = r.wait]
  /\ UNCHANGED bridgeVars

\* A tick of the clock.  The timer of a window fires when it is due.
LimTick ==
  /\ IF unit.lim.window THEN unit.age < Interval ELSE unit.since < Interval
  /\ unit' = [unit EXCEPT !.age = IF unit.lim.window THEN @ + 1 ELSE @,
                          !.since = IF @ < Interval THEN @ + 1 ELSE @]
  /\ UNCHANGED bridgeVars

InitLimiter == AtRest /\ unit = NewLimiterUnit

NextLimiter ==
  \/ LimTick
  \/ LimSchedule
  \/ LimElapse
  \/ LimFlush
  \/ LimCancel
  \/ LimCancelAndWait

SpecLimiter == InitLimiter /\ [][NextLimiter]_vars

\* Time passes and a timer that is due fires.
SpecLimiterFair == SpecLimiter /\ WF_vars(LimTick) /\ WF_vars(LimElapse)

(***************************************************************************)
(* AsyncQueue: [queue, resolve, finished]; resolve is TRUE when a resolver *)
(* of the consumer's promise is stored (this.resolve is not null).  Each   *)
(* operation gives the queue after it; enqueue and finish also whether the *)
(* resolver was called (woke), the iterator what it did (out) and the item *)
(* it yielded.                                                             *)
(***************************************************************************)
NewQueue == [queue |-> <<>>, resolve |-> FALSE, finished |-> FALSE]

NoItem == [by |-> "none", n |-> 0]

\* Mutant: enqueue does not look at finished.
AQEnqueueAfterFinish(q, item) ==
  [q |-> [q EXCEPT !.queue = Append(@, item), !.resolve = FALSE], woke |-> q.resolve]

\* Mutant: enqueue stores the item and does not call the resolver.
AQEnqueueNoWake(q, item) ==
  IF q.finished THEN [q |-> q, woke |-> FALSE]
  ELSE [q |-> [q EXCEPT !.queue = Append(@, item)], woke |-> FALSE]

AQEnqueue(q, item) ==
  IF q.finished THEN [q |-> q, woke |-> FALSE]
  ELSE [q |-> [q EXCEPT !.queue = Append(@, item), !.resolve = FALSE], woke |-> q.resolve]

\* Mutant: finish does not call the resolver.
AQFinishNoWake(q) == [q |-> [q EXCEPT !.finished = TRUE], woke |-> FALSE]

AQFinish(q) ==
  [q |-> [q EXCEPT !.finished = TRUE, !.resolve = FALSE], woke |-> q.resolve]

\* Mutant: the iterator takes the newest item (pop) instead of the oldest.
AQAdvancePopsLast(q) ==
  IF Len(q.queue) > 0
  THEN [q |-> [q EXCEPT !.queue = SubSeq(@, 1, Len(@) - 1)], out |-> "yield",
        item |-> q.queue[Len(q.queue)]]
  ELSE IF q.finished THEN [q |-> q, out |-> "return", item |-> NoItem]
  ELSE [q |-> [q EXCEPT !.resolve = TRUE], out |-> "await", item |-> NoItem]

\* The generator of [Symbol.asyncIterator] runs from where it stands (its
\* start, a yield or the await) to its next yield, return or await.
AQAdvance(q) ==
  IF Len(q.queue) > 0
  THEN [q |-> [q EXCEPT !.queue = Tail(@)], out |-> "yield", item |-> Head(q.queue)]
  ELSE IF q.finished THEN [q |-> q, out |-> "return", item |-> NoItem]
  ELSE [q |-> [q EXCEPT !.resolve = TRUE], out |-> "await", item |-> NoItem]

(***************************************************************************)
(* An AsyncQueue with its producers and one consumer (for await).  The     *)
(* items are numbered in the order of the enqueue() calls.  unit is        *)
(*   q          the queue                                                  *)
(*   pc         the consumer: "ready" to call next() (at the start, or     *)
(*              with the item it was given), "waiting" at the await of the *)
(*              generator, "woken" (the promise is resolved, the generator *)
(*              has not resumed yet) or "ended"                            *)
(*   enqueued   the number of enqueue() calls so far                       *)
(*   accepted   the items enqueued before finish()                         *)
(*   late       the items enqueued after finish()                          *)
(*   yielded    the items the iterator yielded                             *)
(*   finishedAt the consumer's pc when finish() was first called           *)
(***************************************************************************)
Producers == {"P", "Q"}

NewQueueUnit ==
  [q |-> NewQueue, pc |-> "ready", enqueued |-> 0, accepted |-> <<>>, late |-> {},
   yielded |-> <<>>, finishedAt |-> "never"]

\* The consumer after the resolver was called or not.
Woken(pc, woke) == IF woke /\ pc = "waiting" THEN "woken" ELSE pc

\* A producer calls queue.enqueue(item).
QEnqueue(by) ==
  /\ unit.enqueued < MaxItems
  /\ LET item == [by |-> by, n |-> unit.enqueued + 1]
         r == AQEnqueue(unit.q, item)
     IN unit' = [unit EXCEPT !.q = r.q, !.pc = Woken(@, r.woke), !.enqueued = @ + 1,
                             !.accepted = IF unit.q.finished THEN @ ELSE Append(@, item),
                             !.late = IF unit.q.finished THEN @ \cup {item} ELSE @]
  /\ UNCHANGED bridgeVars

\* queue.finish().
QFinish ==
  /\ LET r == AQFinish(unit.q)
     IN unit' = [unit EXCEPT !.q = r.q, !.pc = Woken(@, r.woke),
                             !.finishedAt = IF unit.q.finished THEN @ ELSE unit.pc]
  /\ UNCHANGED bridgeVars

\* The consumer calls next(), or the generator resumes after its await.
QNext ==
  /\ unit.pc \in {"ready", "woken"}
  /\ LET r == AQAdvance(unit.q)
     IN unit' = [unit EXCEPT !.q = r.q,
                             !.pc = IF r.out = "yield" THEN "ready"
                                    ELSE IF r.out = "return" THEN "ended" ELSE "waiting",
                             !.yielded = IF r.out = "yield" THEN Append(@, r.item) ELSE @]
  /\ UNCHANGED bridgeVars

InitQueue == AtRest /\ unit = NewQueueUnit

NextQueue ==
  \/ \E by \in Producers : QEnqueue(by)
  \/ QFinish
  \/ QNext

SpecQueue == InitQueue /\ [][NextQueue]_vars

\* The consumer keeps iterating: the for await loop calls next() again after
\* each item, and the event loop resumes the generator once its promise is
\* resolved.
SpecQueueFair == SpecQueue /\ WF_vars(QNext)

(***************************************************************************)
(* A StreamProcessor and the messages it is given.  unit is                *)
(*   proc    the processor                                                 *)
(*   state   the CardState of the latest processMessage                    *)
(*   folded  the number of messages processed                              *)
(*   shown   a CardState returned so far had response text or a tool call  *)
(*   asked   the latest message was a top-level AskUserQuestion tool_use   *)
(*   base    the text of the latest top-level assistant message with text  *)
(*   deltas  the top-level text deltas processed since, concatenated       *)
(*   nested  the latest message had a parent_tool_use_id                   *)
(*   first   the session_id of the first message that carried one          *)
(*   lastSid the session_id of the latest message                          *)
(***************************************************************************)
ToolNames == {"Bash", "Read", "AskUserQuestion"}

\* The messages a processor is given: those of the SDK stream, top-level
\* and of a subagent.
FoldEvents ==
  {SystemMsg(sid) : sid \in SessionIds \cup {Undefined}}
  \cup {AssistantMsg("s1", <<TextBlock(<<"hi">>)>>),
        AssistantMsg("s2", <<TextBlock(<<"hi">>)>>),
        AssistantMsg("s1", <<ToolResultBlock>>),
        AssistantMsg("s1", <<TextBlock(<<"hi">>), ToolUseBlock("Bash")>>),
        AssistantMsg("s1", <<TextBlock(<<"a">>), TextBlock(<<>>), TextBlock(<<"b">>)>>),
        [AssistantMsg("s1", <<TextBlock(<<"sub">>), ToolUseBlock("Read")>>)
           EXCEPT !.parent = "tool-1"]}
  \cup {AssistantMsg("s1", <<ToolUseBlock(name)>>) : name \in ToolNames}
  \cup {StreamEventMsg("s1", Undefined, BlockStart(ToolUseBlock(name))) : name \in ToolNames}
  \cup {StreamEventMsg("s1", Undefined, BlockStart(TextBlock(<<>>))),
        StreamEventMsg("s1", Undefined, TextDelta(<<"he">>)),
        StreamEventMsg("s1", Undefined, BlockStop),
        StreamEventMsg("s1", Undefined, NoEvent),
        StreamEventMsg("s1", "tool-1", TextDelta(<<"sub">>))}
  \cup {ResultMsg("s1", "success", <<>>),
        [ResultMsg("s1", "success", <<>>) EXCEPT !.result = <<"Done!">>],
        ResultMsg("s1", "error_during_execution", <<"A", "B">>),
        ResultMsg("s1", "error_during_execution", <<"A">>),
        ResultMsg("s1", "error_max_turns", <<>>)}

NewFoldUnit ==
  [proc |-> NewProcessor, state |-> InitialState, folded |-> 0, shown |-> FALSE,
   asked |-> FALSE, base |-> <<>>, deltas |-> <<>>, nested |-> FALSE,
   first |-> Undefined, lastSid |-> Undefined, opened |-> Undefined]

\* The indices of the text blocks with text of a top-level assistant message.
TextBlocksOf(m) ==
  IF m.type = "assistant" /\ m.parent = Undefined
  THEN {i \in 1..Len(m.content) : m.content[i].type = "text" /\ m.content[i].text # <<>>}
  ELSE {}

\* The text such a message leaves: that of its last text block with text.
MessageText(m) ==
  m.content[CHOOSE i \in TextBlocksOf(m) : \A j \in TextBlocksOf(m) : j <= i].text

\* The text of a top-level text delta; <<>> for every other message.
DeltaText(m) ==
  IF /\ m.type = "stream_event" /\ m.parent = Undefined
     /\ m.event.type = "content_block_delta"
  THEN m.event.text ELSE <<>>

\* Message m opens a tool call for the interactive question, at top level.
AsksQuestion(m) ==
  /\ m.parent = Undefined
  /\ \/ /\ m.type = "assistant"
        /\ \E i \in 1..Len(m.content) :
             m.content[i].type = "tool_use" /\ m.content[i].name = "AskUserQuestion"
     \/ /\ m.type = "stream_event"
        /\ m.event.type = "content_block_start"
        /\ m.event.block.type = "tool_use"
        /\ m.event.block.name = "AskUserQuestion"

\* The tool that message m announces: m is the top-level stream event that
\* starts a tool_use block.  Undefined for every other message.
Announced(m) ==
  IF m.type = "stream_event" /\ m.parent = Undefined
  THEN IF m.event.type = "content_block_start"
       THEN IF m.event.block.type = "tool_use" THEN m.event.block.name ELSE Undefined
       ELSE Undefined
  ELSE Undefined

\* The unit after processor.processMessage(m).
Folded(u, m) ==
  LET pm == ProcessMessage(u.proc, m)
  IN [proc |-> pm.proc, state |-> pm.state, folded |-> u.folded + 1,
      shown |-> \/ u.shown
                \/ pm.state.responseText # <<>>
                \/ pm.state.toolCalls # <<>>,
      asked |-> AsksQuestion(m),
      base |-> IF TextBlocksOf(m) # {} THEN MessageText(m) ELSE u.base,
      deltas |-> IF TextBlocksOf(m) # {} THEN <<>>
                 ELSE u.deltas \o DeltaText(m),
      nested |-> m.parent # Undefined,
      first |-> IF u.first = Undefined THEN m.session_id ELSE u.first,
      lastSid |-> m.session_id,
      opened |-> Announced(m)]

\* processor.processMessage(m); no message follows a result message.
Fold(m) ==
  /\ unit.folded < MaxFold
  /\ ~Terminal(unit.state)
  /\ unit' = Folded(unit, m)
  /\ UNCHANGED bridgeVars

\* processor.processMessage(m) for a message that follows a result message:
\* the processor takes every message it is given.
FoldLate(m) ==
  /\ unit.folded < MaxFold
  /\ Terminal(unit.state)
  /\ unit' = Folded(unit, m)
  /\ UNCHANGED bridgeVars

InitFold == AtRest /\ unit = NewFoldUnit

NextFold == \E m \in FoldEvents : Fold(m)

SpecFold == InitFold /\ [][NextFold]_vars

\* A processor that is given messages after a result message as well.
NextFoldLate ==
  \/ \E m \in FoldEvents : Fold(m)
  \/ \E m \in FoldEvents : FoldLate(m)

SpecFoldLate == InitFold /\ [][NextFoldLate]_vars

(***************************************************************************)
(* Properties.                                                             *)
(***************************************************************************)
\* The last render issued for a card.
LastRender(tk) == tk.renders[Len(tk.renders)]

\* C1: for every key at most one task has an opened stream that it still
\* consumes or finalises, at any time.
C1_OneDriveLoopPerKey ==
  \A k \in Keys : Cardinality({t \in Tasks : tasks[t].key = k /\ Active(t)}) <= 1

\* C2: a text message for a key that has an entry in runningTasks is answered
\* with "Task In Progress" and nothing else: no invocation of executeQuery
\* starts, and the table and every task (its abort flag and timer included)
\* stay as they are.
C2_BusyMessageOnlyReplies ==
  [][\A k \in Keys :
       (/\ runningTasks[k] # NoTask
        /\ \E img \in BOOLEAN, mkdirOk \in BOOLEAN : HandleMessage(k, img, mkdirOk, Tasks))
       => /\ reply' = Reply("busy", k)
          /\ runningTasks' = runningTasks
          /\ tasks' = tasks]_vars

C2_Witness ==
  \E t \in Tasks :
    /\ reply = Reply("busy", tasks[t].key)
    /\ runningTasks[tasks[t].key] = t
    /\ tasks[t].pc = "stream"
    /\ ~tasks[t].aborted
    /\ tasks[t].timerArmed

\* C3: a text message for a key whose session has no working directory is
\* answered with "Working Directory Not Set": no entry is inserted, no timer
\* is armed and no stream is opened (no task changes).
C3_NoDirectoryMessageRejected ==
  [][\A k \in Keys :
       (/\ ~HasWorkingDirectory(sessions, k)
        /\ \E img \in BOOLEAN, mkdirOk \in BOOLEAN : HandleMessage(k, img, mkdirOk, Tasks))
       => /\ reply' = Reply("nodir", k)
          /\ runningTasks' = runningTasks
          /\ tasks' = tasks]_vars

C3_Witness ==
  \E k \in Keys :
    /\ reply = Reply("nodir", k)
    /\ sessions[k] # Absent
    /\ ~Truthy(sessions[k].workingDirectory)
    /\ runningTasks[k] = NoTask
    /\ \A t \in Tasks : tasks[t].pc = "free"

\* C4: the entry executeQuery inserted is removed on every path it takes: no
\* invocation that has ended (returned or thrown) still owns an entry of the
\* table, which nothing but /stop or shutdown would remove from then on.
C4_EndedTaskOwnsNoEntry ==
  \A k \in Keys : runningTasks[k] # NoTask => ~Ended(runningTasks[k])

\* C5: a task whose stream ended after a successful result message has
\* rendered status "complete" exactly once, with the final update and never
\* through the limiter; and when it returns its key has no entry.
C5_Succeeded(tk) ==
  tk.pc \in {"final", "images"} /\ ~tk.caught /\ tk.lastState.status = "complete"

C5_Renders ==
  \A t \in Tasks :
    LET tk == tasks[t]
        completes == {i \in 1..Len(tk.renders) : tk.renders[i].state.status = "complete"}
    IN /\ \A i \in completes : tk.renders[i].via = "final"
       /\ C5_Succeeded(tk) => Cardinality(completes) = 1

C5_Returns ==
  \A t \in Tasks :
    (C5_Succeeded(tasks[t]) /\ tasks'[t].pc \notin {"final", "images"})
    => tasks'[t].pc = "done" /\ runningTasks'[tasks[t].key] = NoTask

C5_SuccessRendersCompleteOnce == []C5_Renders /\ [][C5_Returns]_vars

C5_Witness ==
  \E t \in Tasks :
    /\ C5_Succeeded(tasks[t])
    /\ tasks[t].pc = "images"
    /\ Len(tasks[t].renders) = 3
    /\ tasks[t].renders[2].via = "throttled"
    /\ runningTasks[tasks[t].key] = t

\* C6 as stated: the error card of a task whose stream threw shows the
\* message of the error that was thrown.
C6_ErrorCardShowsRaisedMessage ==
  \A t \in Tasks :
    (tasks[t].caught /\ tasks[t].pc = "final")
    => LastRender(tasks[t]).state.errorMessage = tasks[t].raised

\* C6, amended: when the stream throws while no abort is signalled, the final
\* update renders status "error" with the message of the error, or with
\* "Unknown error" when the error has no message or an empty one, and with
\* the response text and the tool calls of the last folded snapshot; the
\* task then returns (it does not throw) and its key has no entry.
C6_ErrorCard ==
  \A t \in Tasks :
    LET tk == tasks[t] IN
    (tk.caught /\ tk.pc = "final")
    => /\ LastRender(tk).via = "final"
       /\ LastRender(tk).state.status = "error"
       /\ LastRender(tk).state.errorMessage =
            (IF TruthyText(tk.raised) THEN tk.raised ELSE <<"Unknown error">>)
       /\ LastRender(tk).state.responseText = tk.lastState.responseText
       /\ LastRender(tk).state.toolCalls = tk.lastState.toolCalls

C6_Returns ==
  \A t \in Tasks :
    (tasks[t].caught /\ tasks[t].pc = "final" /\ tasks'[t].pc # "final")
    => tasks'[t].pc = "done" /\ runningTasks'[tasks[t].key] = NoTask

C6_ErrorCardOrUnknownError == []C6_ErrorCard /\ [][C6_Returns]_vars

C6_Witness ==
  \E t \in Tasks :
    /\ tasks[t].caught /\ tasks[t].pc = "final"
    /\ tasks[t].raised = <<"boom">>
    /\ LastRender(tasks[t]).state.errorMessage = <<"boom">>
    /\ LastRender(tasks[t]).state.responseText = <<"hi">>
    /\ Len(LastRender(tasks[t]).state.toolCalls) = 1

\* C7: on every way out of the drive loop the limiter holds no pending
\* update when the final update is issued, and the final update is the last
\* render of the task's card: none follows it, before or after the return.
C7_FinalRenderIsLast ==
  \A t \in Tasks :
    LET tk == tasks[t] IN
    /\ \A i \in 1..Len(tk.renders) : tk.renders[i].via = "final" => i = Len(tk.renders)
    /\ tk.pc \in {"final", "images"}
       => /\ tk.limiter.pending = NoThunk
          /\ tk.renders # <<>>
          /\ LastRender(tk) = Render("final", tk.final)
    /\ tk.pc = "done" => tk.renders = <<>> /\ tk.limiter.pending = NoThunk

C7_Witness ==
  \E t \in Tasks :
    /\ tasks[t].pc = "final"
    /\ tasks[t].aborted
    /\ tasks[t].limiter.window
    /\ Len(tasks[t].renders) = 3
    /\ tasks[t].renders[1].via = "throttled"
    /\ tasks[t].renders[2].via = "throttled"
    /\ tasks[t].renders[2].state = tasks[t].lastState

\* C8: /stop for a key with an entry aborts the task that owns the entry and
\* removes the entry; /stop for a key without one changes neither the table
\* nor a session nor a task.
C8_StopAbortsAndRemoves ==
  [][\A k \in Keys :
       CmdStop(k)
       => IF runningTasks[k] # NoTask
          THEN /\ tasks'[runningTasks[k]].aborted
               /\ runningTasks'[k] = NoTask
               /\ reply' = Reply("stopped", k)
          ELSE /\ runningTasks' = runningTasks
               /\ sessions' = sessions
               /\ tasks' = tasks
               /\ reply' = Reply("nothing", k)]_vars

C8_Witness ==
  \E t \in Tasks :
    /\ reply = Reply("stopped", tasks[t].key)
    /\ tasks[t].pc = "stream"
    /\ tasks[t].aborted
    /\ tasks[t].timerArmed
    /\ runningTasks[tasks[t].key] = NoTask

\* C9: /cd to a directory, for a key whose session holds a session id, drops
\* the id when the directory differs from the stored one and keeps it when
\* it is the same; the stored directory is the new one in both cases.
C9_SetWorkingDirectoryHandle ==
  [][\A k \in Keys, dir \in Dirs :
       (/\ sessions[k] # Absent
        /\ Truthy(sessions[k].sessionId)
        /\ CmdCd(k, dir))
       => /\ sessions'[k].workingDirectory = dir
          /\ sessions'[k].sessionId =
               (IF dir # sessions[k].workingDirectory THEN Undefined
                ELSE sessions[k].sessionId)]_vars

C9_Witness ==
  \E k \in Keys :
    /\ reply = Reply("cd", k)
    /\ sessions[k] # Absent
    /\ sessions[k].sessionId \in SessionIds
    /\ sessions[k].workingDirectory = "/d2"

\* C10: /reset drops the session id of the key's session and keeps its
\* working directory; the sessions of the other keys stay as they are.
C10_ResetSessionFrame ==
  [][\A k \in Keys :
       CmdReset(k)
       => /\ sessions[k] # Absent
             => /\ sessions'[k] # Absent
                /\ sessions'[k].sessionId = Undefined
                /\ sessions'[k].workingDirectory = sessions[k].workingDirectory
          /\ \A j \in Keys \ {k} : sessions'[j] = sessions[j]]_vars

C10_Witness ==
  \E k \in Keys, j \in Keys, t \in Tasks :
    /\ j # k
    /\ reply = Reply("reset", k)
    /\ tasks[t].key = k /\ tasks[t].pc = "stream" /\ tasks[t].proc.sessionId \in SessionIds
    /\ sessions[k] # Absent
    /\ sessions[k].sessionId = Undefined
    /\ sessions[k].workingDirectory = "/d2"
    /\ sessions[j] # Absent
    /\ sessions[j].sessionId \in SessionIds
    /\ sessions[j].workingDirectory = "/d1"

\* C11: of the thunks scheduled while a window is open only the latest is
\* pending and executed: a thunk that was pending when a later one was
\* scheduled is never executed, no thunk is executed twice, a thunk
\* scheduled in an open window is not executed by that call, and the elapsing
\* window executes the pending one.
C11_Latest ==
  /\ \A i \in 1..Len(unit.executed) : unit.executed[i] \notin unit.superseded
  /\ \A i, j \in 1..Len(unit.executed) : unit.executed[i] = unit.executed[j] => i = j
  /\ unit.lim.pending # NoThunk => unit.lim.pending.n = unit.scheduled

C11_Steps ==
  /\ (LimSchedule /\ unit.lim.window) => unit'.executed = unit.executed
  /\ (LimElapse /\ unit.lim.pending # NoThunk)
     => unit'.executed = Append(unit.executed, unit.lim.pending.n)

C11_LatestWins == []C11_Latest /\ [][C11_Steps]_vars

C11_Witness ==
  /\ unit.scheduled = 3
  /\ unit.executed = <<1, 3>>
  /\ unit.how = <<"schedule", "elapse">>
  /\ unit.superseded = {2}
  /\ unit.cancelled = {} /\ unit.abandoned = {}

\* C12: flush() with a pending thunk executes it at once, while the window
\* is still open, and leaves nothing pending; with nothing pending it
\* executes nothing and leaves the limiter as it is.
C12_Flush ==
  [][LimFlush
     => IF unit.lim.pending # NoThunk
        THEN /\ unit'.executed = Append(unit.executed, unit.lim.pending.n)
             /\ unit'.lim.pending = NoThunk
        ELSE /\ unit'.executed = unit.executed
             /\ unit'.lim = unit.lim]_vars

C12_Witness ==
  /\ unit.last = "flush"
  /\ unit.executed = <<1, 2>>
  /\ unit.how = <<"schedule", "flush">>
  /\ unit.lim.window
  /\ unit.lim.pending = NoThunk

\* C13: cancel() leaves nothing pending and executes nothing, and a thunk
\* that was pending when cancel() was called is never executed, neither by
\* the elapsing window nor by a later flush().
C13_NotExecuted ==
  \A i \in 1..Len(unit.executed) : unit.executed[i] \notin unit.cancelled

C13_Steps ==
  LimCancel => unit'.lim.pending = NoThunk /\ unit'.executed = unit.executed

C13_CancelDiscards == []C13_NotExecuted /\ [][C13_Steps]_vars

C13_Witness ==
  /\ unit.cancelled = {2}
  /\ unit.executed = <<1, 3>>
  /\ unit.how = <<"schedule", "flush">>
  /\ ~unit.lim.window

\* C14: schedule() with no window open executes its thunk at once and opens
\* a window with nothing pending; a window that elapses with nothing pending
\* closes and executes nothing, so that the next schedule() executes at once.
C14_Idle ==
  [][/\ (LimSchedule /\ ~unit.lim.window)
        => /\ unit'.executed = Append(unit.executed, unit.scheduled + 1)
           /\ unit'.lim = [window |-> TRUE, pending |-> NoThunk]
     /\ (LimElapse /\ unit.lim.pending = NoThunk)
        => /\ unit'.executed = unit.executed
           /\ unit'.lim = NewLimiter]_vars

C14_Witness ==
  /\ unit.scheduled = 2
  /\ unit.executed = <<1, 2>>
  /\ unit.how = <<"schedule", "schedule">>
  /\ unit.last = "schedule"

\* C15: cancelAndWait() leaves nothing pending and executes nothing; its
\* caller waits exactly when a window is open, and as long as it waits the
\* window stays open and no thunk is executed; a thunk that was pending at
\* the call is never executed.
C15_Waiting ==
  /\ \A i \in 1..Len(unit.executed) : unit.executed[i] \notin unit.abandoned
  /\ unit.waiting => unit.lim.window

C15_Steps ==
  /\ LimCancelAndWait
     => /\ unit'.lim.pending = NoThunk
        /\ unit'.executed = unit.executed
        /\ unit'.waiting = unit.lim.window
  /\ unit.waiting => unit'.executed = unit.executed

C15_CancelAndWait == []C15_Waiting /\ [][C15_Steps]_vars

C15_Witness ==
  /\ unit.abandoned = {2}
  /\ unit.executed = <<1>>
  /\ unit.last = "elapse"
  /\ ~unit.waiting
  /\ ~unit.lim.window

\* C16: the iterator yields the items enqueued before finish(), each once
\* and in the order of the enqueue() calls: what was yielded followed by what
\* is buffered is what was accepted, and when the iteration has ended all of
\* it was yielded.
C16_Delivery ==
  /\ unit.yielded \o unit.q.queue = unit.accepted
  /\ \A i \in 1..Len(unit.accepted) : \A j \in 1..Len(unit.accepted) :
       i < j => unit.accepted[i].n < unit.accepted[j].n
  /\ unit.pc = "ended" => unit.yielded = unit.accepted

C16_Witness ==
  /\ unit.pc = "ended"
  /\ Len(unit.yielded) = 3
  /\ unit.yielded[1].by # unit.yielded[2].by
  /\ unit.finishedAt = "ready"
  /\ unit.yielded = unit.accepted

\* C17: after finish() an enqueue() changes nothing and its item is never
\* yielded; finish() wakes a suspended consumer, so that no consumer is left
\* waiting, and the iterator then yields what is buffered and ends, and only
\* then.
C17_Finished ==
  /\ \A i \in 1..Len(unit.yielded) : unit.yielded[i] \notin unit.late
  /\ unit.q.finished => unit.pc # "waiting"
  /\ unit.pc = "ended" => unit.q.finished /\ unit.q.queue = <<>>

C17_Steps ==
  /\ ((\E by \in Producers : QEnqueue(by)) /\ unit.q.finished)
     => unit'.q = unit.q /\ unit'.pc = unit.pc
  /\ (QNext /\ unit.q.finished)
     => IF unit.q.queue = <<>> THEN unit'.pc = "ended"
        ELSE unit'.yielded = Append(unit.yielded, Head(unit.q.queue))

C17_Termination == []C17_Finished /\ [][C17_Steps]_vars

C17_Witness ==
  /\ unit.pc = "ended"
  /\ unit.finishedAt = "waiting"
  /\ Len(unit.yielded) = 2
  /\ unit.late # {}

\* C18: an AskUserQuestion tool_use that was just processed leaves the card
\* waiting_for_input, and no tool call entry is opened for it.
C18_QuestionWaitsForInput ==
  unit.asked =>
    /\ unit.state.status = "waiting_for_input"
    /\ \A i \in 1..Len(unit.state.toolCalls) :
         unit.state.toolCalls[i].name # "AskUserQuestion"

\* C19: once a returned CardState has had response text or a tool call, no
\* later one has status thinking.
C19_NeverBackToThinking == unit.shown => unit.state.status # "thinking"

\* C20: processing a message keeps every tool call at its position with its
\* name, adds new ones only at the end, and never turns a done one running.
C20_ToolCallsAppendOnly ==
  [][LET old == unit.state.toolCalls
         new == unit'.state.toolCalls
     IN /\ Len(old) <= Len(new)
        /\ \A i \in 1..Len(old) :
             /\ new[i].name = old[i].name
             /\ old[i].status = "done" => new[i].status = "done"
        /\ \A i \in 1..Len(new) : new[i].status \in {"running", "done"}]_vars

C20_Witness ==
  /\ Len(unit.state.toolCalls) = 3
  /\ unit.state.toolCalls[1].status = "done"
  /\ unit.state.toolCalls[2].status = "done"
  /\ unit.state.toolCalls[3].status = "running"
  /\ unit.state.toolCalls[1].name = unit.state.toolCalls[3].name

\* C21: processing a result message returns status complete when its subtype
\* is success and error otherwise; the error message is the error strings
\* with "; " between them, or "Ended with: <subtype>" when there are none.
C21_Expected(m) ==
  IF m.errors = <<>> THEN <<"Ended with: ", m.subtype>>
  ELSE [i \in 1..(2 * Len(m.errors) - 1) |->
          IF i % 2 = 1 THEN m.errors[(i + 1) \div 2] ELSE "; "]

C21_ResultStatus ==
  [][\A m \in FoldEvents :
       (m.type = "result" /\ Fold(m))
       => /\ unit'.state.status = (IF m.subtype = "success" THEN "complete" ELSE "error")
          /\ unit'.state.errorMessage =
               (IF m.subtype = "success" THEN NoText ELSE C21_Expected(m))]_vars

C21_Witness ==
  /\ unit.state.status = "error"
  /\ unit.state.errorMessage = <<"A", "; ", "B">>
  /\ unit.folded > 1

C23_FirstSession == unit.proc.sessionId = unit.first

C23_SystemSteps ==
  \A m \in FoldEvents :
    (m.type = "system" /\ Fold(m))
    => /\ unit'.proc.responseText = unit.proc.responseText
       /\ unit'.proc.toolCalls = unit.proc.toolCalls
       /\ unit'.proc.currentToolName = unit.proc.currentToolName
       /\ unit'.state = unit.state

C23_SessionCapturedOnce == []C23_FirstSession /\ [][C23_SystemSteps]_vars

C23_Witness ==
  /\ unit.proc.sessionId = "s1"
  /\ unit.lastSid = "s2"
  /\ unit.state.toolCalls # <<>>

\* C24: the CardState a result message returns has no tool call that is
\* running, and neither has the processor after it.
C24_ResultClosesTools ==
  Terminal(unit.state)
  => /\ \A i \in 1..Len(unit.state.toolCalls) : unit.state.toolCalls[i].status = "done"
     /\ \A i \in 1..Len(unit.proc.toolCalls) : unit.proc.toolCalls[i].status = "done"

\* Two messages opened a tool call each and the third was the result: the
\* second tool call was running when the result came.
C24_Witness ==
  /\ Terminal(unit.state)
  /\ unit.folded = 3
  /\ Len(unit.state.toolCalls) = 2
  /\ unit.state.toolCalls[2].status = "done"

\* C25: a task that has ended, on whatever path, has left no staged image
\* file behind.
C25_EndedTaskLeavesNoStagedFile ==
  \A t \in Tasks : tasks[t].pc \in {"done", "thrown"} => ~tasks[t].staged

\* C26: destroy aborts every task that owns an entry of the table, empties
\* the table and stops the sweep; once the sweep is stopped no session is
\* evicted; and a task that was aborted unwinds without an error: it does
\* not throw, its final update shows the last snapshot and not the error
\* card of a caught error, and it returns with its timer cleared and no
\* staged file left.
C26_DestroyStep ==
  Destroy
  => /\ \A k \in Keys : runningTasks[k] # NoTask => tasks'[runningTasks[k]].aborted
     /\ \A k \in Keys : runningTasks'[k] = NoTask
     /\ ~sweepRunning'

C26_NoEviction ==
  ~sweepRunning
  => /\ ~sweepRunning'
     /\ \A k \in Keys : sessions[k] # Absent => sessions'[k] # Absent

C26_Unwinds ==
  \A t \in Tasks :
    (tasks[t].aborted /\ ~tasks[t].caught /\ ~Ended(t))
    => /\ tasks'[t].pc # "thrown"
       /\ ~tasks'[t].caught
       /\ (tasks[t].pc = "flushing" /\ tasks'[t].pc = "final")
          => LastRender(tasks'[t]) = Render("final", tasks[t].lastState)
       /\ tasks'[t].pc = "done" => ~tasks'[t].timerArmed /\ ~tasks'[t].staged

C26_Shutdown == [][C26_DestroyStep /\ C26_NoEviction /\ C26_Unwinds]_vars

C26_Witness ==
  /\ ~sweepRunning
  /\ \A k \in Keys : runningTasks[k] = NoTask
  /\ \A t \in Tasks : tasks[t].pc = "final" /\ tasks[t].aborted /\ tasks[t].timerArmed
  /\ tasks[1].key # tasks[2].key

\* rs[i..] can be matched in order within ss[j..]; strict: no element of ss
\* is matched twice.
RECURSIVE C27_Embeds(_, _, _, _, _)
C27_Embeds(rs, ss, i, j, strict) ==
  IF i > Len(rs) THEN TRUE
  ELSE IF j > Len(ss) THEN FALSE
  ELSE IF rs[i] = ss[j] THEN C27_Embeds(rs, ss, i + 1, IF strict THEN j + 1 ELSE j, strict)
  ELSE C27_Embeds(rs, ss, i, j + 1, strict)

C27_RenderedStates(tk) == [i \in 1..Len(tk.renders) |-> tk.renders[i].state]

\* C27 as stated: the snapshots rendered for a task's card are a subsequence
\* of the snapshots its processor returned.
C27_RendersSubsequenceOfFolded ==
  \A t \in Tasks :
    C27_Embeds(C27_RenderedStates(tasks[t]), tasks[t].snaps, 1, 1, TRUE)

\* What a card can show, in order: the initial snapshot, the snapshots the
\* processor returned and, when the stream threw, the error snapshot made
\* of the last of them.
C27_Shown(tk) ==
  LET ss == <<InitialState>> \o tk.snaps
  IN IF tk.caught THEN Append(ss, ErrorState(ss[Len(ss)], tk.raised)) ELSE ss

\* C27, amended: the renders of a task's card follow the order of the
\* snapshots: every render shows the initial snapshot, a snapshot the
\* processor returned or the error snapshot, and none shows one that is older
\* than one already rendered; the same snapshot can be rendered again.
C27_RendersInFoldOrder ==
  \A t \in Tasks :
    C27_Embeds(C27_RenderedStates(tasks[t]), C27_Shown(tasks[t]), 1, 1, FALSE)

C27_Witness ==
  \E t \in Tasks :
    LET tk == tasks[t] IN
    /\ tk.pc = "final"
    /\ Len(tk.snaps) = 3
    /\ Len(tk.renders) = 3
    /\ tk.renders[1] = Render("throttled", tk.snaps[1])
    /\ tk.renders[2] = Render("throttled", tk.snaps[3])
    /\ tk.renders[3] = Render("final", tk.snaps[3])
    /\ tk.snaps[2] # tk.snaps[1]
    /\ tk.snaps[2] # tk.snaps[3]

\* C28: a task whose abort controller was signalled while its stream is
\* open, by /stop, by the timeout or by shutdown, processes no further
\* message and schedules no further update; it catches no error; it leaves
\* the loop to flush, renders its last snapshot with the final update, and
\* returns with its timer cleared, no staged file and no entry of its own.
C28_Path(pc) ==
  CASE pc = "stream" -> {"stream", "flushing"}
    [] pc = "flushing" -> {"flushing", "final"}
    [] pc = "final" -> {"final", "images", "done"}
    [] pc = "images" -> {"images", "done"}

C29_StatusDerived ==
  ~Terminal(unit.state)
  => unit.state.status =
       (IF \/ \E i \in 1..Len(unit.state.toolCalls) : unit.state.toolCalls[i].status = "running"
           \/ unit.state.responseText # <<>>
        THEN "running" ELSE "thinking")

C29_Witness ==
  /\ unit.state.status = "running"
  /\ unit.state.responseText = <<>>
  /\ Len(unit.state.toolCalls) = 2
  /\ unit.state.toolCalls[1].status = "done"
  /\ unit.state.toolCalls[2].status = "running"
  /\ unit.folded = 4

\* A step that takes the session id away from key k's session by command:
\* /reset, or /cd to another directory.
C30_Cleared(k) ==
  \/ CmdReset(k)
  \/ \E arg \in Dirs : arg # sessions[k].workingDirectory /\ CmdCd(k, arg)

\* The session of key k holds a session id.
C30_Holds(ss, k) == ss[k] # Absent /\ Truthy(ss[k].sessionId)

\* The session id of key k after the step is the one before it, or the one
\* a task of the key has just stored.
C30_KeptOrStored(k) ==
  /\ C30_Holds(sessions', k)
  /\ \/ sessions'[k].sessionId = sessions[k].sessionId
     \/ \E t \in Tasks :
          /\ tasks[t].key = k
          /\ tasks[t].pc = "stream"
          /\ tasks'[t].proc.sessionId = sessions'[k].sessionId

C30_Stores ==
  \A t \in Tasks : \A m \in StreamEvents(t) :
    (/\ StreamMessage(t, m, Store.maxEv, Store.kinds)
     /\ ~tasks[t].aborted
     /\ Truthy(m.session_id)
     /\ m.session_id # SessionIdOf(t))
    => /\ C30_Holds(sessions', tasks[t].key)
       /\ sessions'[tasks[t].key].sessionId = m.session_id

C30_Keeps ==
  \A k \in Keys :
    (C30_Holds(sessions, k) /\ ~C30_Cleared(k) /\ ~Sweep) => C30_KeptOrStored(k)

C30_Resumes ==
  \A t \in Tasks :
    (InitialCardDone(t, TRUE) /\ C30_Holds(sessions, tasks[t].key))
    => tasks'[t].resume = sessions[tasks[t].key].sessionId

C31_StepOf(a) ==
  \/ HandleMessage(a, FALSE, TRUE, TwoKeys.slots)
  \/ \E arg \in TwoKeys.args : CmdCd(a, arg)
  \/ CmdStop(a)
  \/ \E t \in Tasks : tasks[t].key = a /\ ~Ended(t) /\ tasks'[t] # tasks[t]

\* C31: a step of one key leaves every other key's entry, session (its
\* directory and its session id) and tasks, with their abort signal, as they
\* are; and a message is answered Task In Progress only when its own key
\* has an entry.
C31_PerKeyIsolation ==
  [][/\ \A a \in Keys : \A b \in Keys \ {a} :
          C31_StepOf(a)
          => /\ runningTasks'[b] = runningTasks[b]
             /\ sessions'[b] = sessions[b]
             /\ \A t \in Tasks : (tasks[t].key = b /\ ~Ended(t)) => tasks'[t] = tasks[t]
     /\ \A b \in Keys : reply' = Reply("busy", b) => runningTasks[b] # NoTask]_vars

\* Key A has changed its directory while a task of each key streams.
C31_Witness ==
  /\ reply = Reply("cd", "A")
  /\ \A k \in Keys : runningTasks[k] # NoTask /\ tasks[runningTasks[k]].key = k
  /\ \A t \in Tasks : tasks[t].pc = "stream"
  /\ sessions["A"].workingDirectory = "/d2"
  /\ sessions["B"].workingDirectory = "/d1"
  /\ Truthy(sessions["B"].sessionId)

\* C32: a consumer waits only on an empty queue that is not finished, with
\* its resolver stored; the next enqueue() or finish() wakes it; and every
\* item enqueued before finish() is eventually yielded to a consumer that
\* keeps iterating.
C32_WaitsOnEmpty ==
  unit.pc = "waiting"
  => unit.q.resolve /\ unit.q.queue = <<>> /\ ~unit.q.finished

C32_Wakes ==
  (unit.pc = "waiting" /\ ((\E by \in Producers : QEnqueue(by)) \/ QFinish))
  => unit'.pc = "woken"

C32_Yielded(n) == \E i \in 1..Len(unit.yielded) : unit.yielded[i].n = n

C32_Accepted(n) == \E i \in 1..Len(unit.accepted) : unit.accepted[i].n = n

C32_NoLostWakeup ==
  /\ []C32_WaitsOnEmpty
  /\ [][C32_Wakes]_vars
  /\ \A n \in 1..MaxItems : C32_Accepted(n) ~> C32_Yielded(n)

\* The consumer was waiting when an item arrived, and has been woken.
C32_Witness ==
  /\ unit.pc = "woken"
  /\ Len(unit.q.queue) = 1
  /\ Len(unit.yielded) = 1
  /\ ~unit.q.finished

\* C33: as long as no thunk was executed by flush(), a thunk is executed at
\* least Interval ticks after the one before it; and the thunk of the latest
\* schedule() is eventually executed unless it is cancelled (or a later
\* schedule() makes another one the latest).
C33_Separated ==
  (unit'.executed # unit.executed /\ unit.executed # <<>>
   /\ \A i \in 1..Len(unit'.how) : unit'.how[i] # "flush")
  => unit.since = Interval

C33_Done(n) ==
  \/ \E i \in 1..Len(unit.executed) : unit.executed[i] = n
  \/ n \in unit.cancelled \cup unit.abandoned
  \/ unit.scheduled > n

C33_RateBound ==
  /\ [][C33_Separated]_vars
  /\ \A n \in 1..MaxThunks : (unit.scheduled = n) ~> C33_Done(n)

\* The third thunk was executed when the window of the first elapsed.
C33_Witness ==
  /\ unit.executed = <<1, 3>>
  /\ unit.how = <<"schedule", "elapse">>
  /\ unit.scheduled = 3
  /\ unit.since = 0
  /\ unit.age = 0
  /\ unit.lim.window

\* C34: a session handle is stored only for a task whose stream was opened
\* with the working directory the context has when the handle is stored, and
\* a step that changes the working directory leaves no handle, so that a
\* stored handle always belongs to the current working directory; also when
\* /cd changes the directory while a task of the key consumes its stream.
C34_StoredFor(k) ==
  /\ sessions'[k] # Absent
  /\ Truthy(sessions'[k].sessionId)
  /\ (sessions[k] = Absent \/ sessions[k].sessionId # sessions'[k].sessionId)

C34_Moved(k) ==
  /\ sessions[k] # Absent
  /\ sessions'[k] # Absent
  /\ sessions[k].workingDirectory # sessions'[k].workingDirectory

C34_Step ==
  \A k \in Keys :
    /\ C34_StoredFor(k) =>
         \E t \in Tasks : /\ tasks[t].pc = "stream"
                          /\ tasks[t].key = k
                          /\ tasks'[t].proc.sessionId = sessions'[k].sessionId
                          /\ tasks[t].cwd = sessions'[k].workingDirectory
    /\ C34_Moved(k) => ~Truthy(sessions'[k].sessionId)

C34_HandleBoundToWorkspace == [][C34_Step]_vars

\* C35: a message folded right after /reset, by a task that was consuming
\* its stream when /reset came, does not store a handle: the handle stays
\* cleared until a task admitted after the reset reports one.
C35_FoldsAfterReset(k) ==
  /\ reply = Reply("reset", k)
  /\ \E t \in Tasks : /\ tasks[t].key = k
                      /\ tasks[t].pc = "stream"
                      /\ tasks'[t].nEvents = tasks[t].nEvents + 1

C35_Step ==
  \A k \in Keys :
    C35_FoldsAfterReset(k) => (sessions'[k] = Absent \/ ~Truthy(sessions'[k].sessionId))

C35_ResetStaysCleared == [][C35_Step]_vars

\* C36: when a task unwinds, its cleanup removes from runningTasks only the
\* entry the task registered: the entry of another (later) task of the same
\* key is left as it is.
C36_Unwinds(u) == tasks[u].pc \notin {"free", "done"} /\ tasks'[u].pc = "done"

C36_Step ==
  \A u \in Tasks :
    (C36_Unwinds(u) /\ runningTasks[tasks[u].key] # u)
    => runningTasks'[tasks[u].key] = runningTasks[tasks[u].key]

C36_CleanupRemovesOwnEntry == [][C36_Step]_vars

\* C37: once a result message was folded, the snapshot of every later
\* message still has status complete or error, and all its tool calls are
\* done.
C37_AllDone(state) ==
  \A i \in 1..Len(state.toolCalls) : state.toolCalls[i].status = "done"

C37_Step ==
  (Terminal(unit.state) /\ unit'.folded = unit.folded + 1)
  => (Terminal(unit'.state) /\ C37_AllDone(unit'.state))

C37_TerminalIsSticky == [][C37_Step]_vars

\* C38: in every snapshot at most one tool call is running; when a tool call
\* is opened, the calls that were there before are all done afterwards, also
\* when they carry the name of the new one.
C38_Running(state) ==
  {i \in 1..Len(state.toolCalls) : state.toolCalls[i].status = "running"}

C38_AtMostOne == Cardinality(C38_Running(unit.state)) <= 1

C38_Opens ==
  (unit'.folded = unit.folded + 1
   /\ Len(unit'.proc.toolCalls) > Len(unit.proc.toolCalls))
  => \A i \in 1..Len(unit.proc.toolCalls) : unit'.proc.toolCalls[i].status = "done"

C38_OneRunningTool == []C38_AtMostOne /\ [][C38_Opens]_vars

\* Bash was called twice: the first call is done, the second is running.
C38_Witness ==
  /\ unit.state.toolCalls =
       <<[name |-> "Bash", status |-> "done"], [name |-> "Bash", status |-> "running"]>>
  /\ unit.state.status = "running"

\* C39: when a top-level block-start event has announced a tool and the
\* full assistant message with the tool_use block of that invocation is
\* folded next, toolCalls has one entry for the invocation: the message adds
\* no second entry.
C39_Step ==
  \A name \in ToolNames :
    (/\ unit.opened = name
     /\ unit.folded < MaxFold
     /\ unit' = Folded(unit, AssistantMsg("s1", <<ToolUseBlock(name)>>)))
    => Len(unit'.state.toolCalls) = Len(unit.state.toolCalls)

C39_OneEntryPerInvocation == [][C39_Step]_vars

\* C40: every thunk given to schedule() is executed at most once: one that
\* flush() executed is not executed again when the window elapses, and one
\* that schedule() executed at once is not executed again by a later elapse
\* or flush().
C40_ExecutedAtMostOnce ==
  \A i, j \in 1..Len(unit.executed) : unit.executed[i] = unit.executed[j] => i = j

\* The first thunk was executed at once and the second by flush(); then the
\* window elapsed and a second flush() came, and nothing more was executed.
C40_Witness ==
  /\ unit.executed = <<1, 2>>
  /\ unit.how = <<"schedule", "flush">>
  /\ unit.scheduled = 2
  /\ ~unit.lim.window
  /\ unit.last = "flush"

====
